---- MODULE Spec2Model ----
(***************************************************************************)
(* A model of Catalitium's query-normalisation, salary-reference,          *)
(* enrichment, filtering and pagination code (src/app.py).                 *)
(*                                                                         *)
(* Python strings are TLA+ strings, read and taken apart with Len, SubSeq  *)
(* and \o.  Python's None is the empty tuple <<>> and an integer v is the  *)
(* 1-tuple <<v>>, so that None differs from every number, 0 included.      *)
(* Python dicts are functions whose DOMAIN is the set of keys present.     *)
(*                                                                         *)
(* src/app.py holds a few non-ASCII characters.  In the strings of this    *)
(* module they are written with ASCII stand-ins, which the modelled        *)
(* inputs never use for themselves:                                        *)
(*     #  is U+00C3 (capital A with tilde)   %  is U+00E3 (its lower case) *)
(*     &  is U+00B6 (pilcrow)                ~  is U+00E2 (a circumflex)   *)
(*     !  is U+20AC (euro sign)              ?  is U+201C (left quote)     *)
(***************************************************************************)
EXTENDS Integers, Sequences, FiniteSets, TLC

VARIABLES op, inp, out, file, cache

vars == <<op, inp, out, file, cache>>

(***************************************************************************)
(* Bounds of the model.                                                    *)
(***************************************************************************)
MaxNormLen == 3

MaxParseLen == 4

MaxRows == 2

MaxItems == 4

MaxRefRows == 3

(***************************************************************************)
(* Python values and string primitives.                                    *)
(***************************************************************************)
None == <<>>

Some(v) == <<v>>

Truthy(x) == x # None /\ x[1] # 0

Min2(a, b) == IF a <= b THEN a ELSE b

Max2(a, b) == IF a >= b THEN a ELSE b

Digits == {"0", "1", "2", "3", "4", "5", "6", "7", "8", "9"}

LowerLetters ==
    {"a", "b", "c", "d", "e", "f", "g", "h", "i", "j", "k", "l", "m", "n", "o",
     "p", "q", "r", "s", "t", "u", "v", "w", "x", "y", "z", "%", "~"}

UpperLetters ==
    {"A", "B", "C", "D", "E", "F", "G", "H", "I", "J", "K", "L", "M", "N", "O",
     "P", "Q", "R", "S", "T", "U", "V", "W", "X", "Y", "Z", "#"}

Letters == LowerLetters \cup UpperLetters

\* \s of Python's re, and the characters str.strip() removes.
Whitespace == {" ", "\t"}

\* \w of Python's re.
WordChars == Letters \cup Digits \cup {"_"}

LowerOf ==
    [A |-> "a", B |-> "b", C |-> "c", D |-> "d", E |-> "e", F |-> "f", G |-> "g",
     H |-> "h", I |-> "i", J |-> "j", K |-> "k", L |-> "l", M |-> "m", N |-> "n",
     O |-> "o", P |-> "p", Q |-> "q", R |-> "r", S |-> "s", T |-> "t", U |-> "u",
     V |-> "v", W |-> "w", X |-> "x", Y |-> "y", Z |-> "z"]

UpperOf ==
    [a |-> "A", b |-> "B", c |-> "C", d |-> "D", e |-> "E", f |-> "F", g |-> "G",
     h |-> "H", i |-> "I", j |-> "J", k |-> "K", l |-> "L", m |-> "M", n |-> "N",
     o |-> "O", p |-> "P", q |-> "Q", r |-> "R", s |-> "S", t |-> "T", u |-> "U",
     v |-> "V", w |-> "W", x |-> "X", y |-> "Y", z |-> "Z"]

Char(s, i) == SubSeq(s, i, i)

LowerChar(c) ==
    IF c = "#" THEN "%" ELSE IF c \in DOMAIN LowerOf THEN LowerOf[c] ELSE c

UpperChar(c) ==
    IF c = "%" THEN "#" ELSE IF c \in DOMAIN UpperOf THEN UpperOf[c] ELSE c

RECURSIVE Lower(_)
Lower(s) == IF s = "" THEN "" ELSE LowerChar(Char(s, 1)) \o Lower(Tail(s))

RECURSIVE Upper(_)
Upper(s) == IF s = "" THEN "" ELSE UpperChar(Char(s, 1)) \o Upper(Tail(s))

\* s[a:b] of Python for 0 <= a: the characters at 0-based places a .. b-1.
Slice(s, a, b) ==
    IF Min2(b, Len(s)) <= a THEN "" ELSE SubSeq(s, a + 1, Min2(b, Len(s)))

RECURSIVE LStrip(_)
LStrip(s) ==
    IF s # "" /\ Char(s, 1) \in Whitespace THEN LStrip(Tail(s)) ELSE s

RECURSIVE RStrip(_)
RStrip(s) ==
    IF s # "" /\ Char(s, Len(s)) \in Whitespace
    THEN RStrip(SubSeq(s, 1, Len(s) - 1))
    ELSE s

\* str.strip()
Strip(s) == RStrip(LStrip(s))

\* k occurs in s at the 1-based place i.
StartsAt(s, k, i) ==
    /\ i + Len(k) - 1 <= Len(s)
    /\ SubSeq(s, i, i + Len(k) - 1) = k

\* Python's "k in s".
Contains(s, k) == k = "" \/ \E i \in 1..Len(s) : StartsAt(s, k, i)

\* str.isalpha()
IsAlpha(s) == s # "" /\ \A i \in 1..Len(s) : Char(s, i) \in Letters

\* str.isdigit()
IsDigit(s) == s # "" /\ \A i \in 1..Len(s) : Char(s, i) \in Digits

\* str.replace(k, v) for a non-empty k: the occurrences of k from the left,
\* none overlapping the one before it.
RECURSIVE Replace(_, _, _)
Replace(s, k, v) ==
    IF Len(s) < Len(k) THEN s
    ELSE IF StartsAt(s, k, 1)
         THEN v \o Replace(SubSeq(s, Len(k) + 1, Len(s)), k, v)
         ELSE Char(s, 1) \o Replace(Tail(s), k, v)

\* re.sub of every character outside the class keep by a space.
RECURSIVE SubNotIn(_, _)
SubNotIn(s, keep) ==
    IF s = "" THEN ""
    ELSE (IF Char(s, 1) \in keep THEN Char(s, 1) ELSE " ")
         \o SubNotIn(Tail(s), keep)

\* re.sub(r"\s+", " ", s)
RECURSIVE CollapseSpace(_)
CollapseSpace(s) ==
    IF s = "" THEN ""
    ELSE IF Char(s, 1) \in Whitespace
         THEN " " \o CollapseSpace(LStrip(s))
         ELSE Char(s, 1) \o CollapseSpace(Tail(s))

(***************************************************************************)
(* The lexical normaliser.                                                 *)
(***************************************************************************)
COUNTRY_NORM ==
    << <<"deutschland", "DE">>, <<"germany", "DE">>, <<"deu", "DE">>,
       <<"de", "DE">>, <<"switzerland", "CH">>, <<"schweiz", "CH">>,
       <<"suisse", "CH">>, <<"svizzera", "CH">>, <<"ch", "CH">>,
       <<"austria", "AT">>, <<"#&sterreich", "AT">>, <<"at", "AT">>,
       <<"europe", "EU">>, <<"eu", "EU">>, <<"uk", "UK">>,
       <<"gb", "UK">>, <<"england", "UK">>, <<"united kingdom", "UK">>,
       <<"usa", "US">>, <<"united states", "US">>, <<"america", "US">>,
       <<"us", "US">>, <<"spain", "ES">>, <<"es", "ES">>,
       <<"france", "FR">>, <<"fr", "FR">>, <<"italy", "IT">>,
       <<"it", "IT">>, <<"netherlands", "NL">>, <<"nl", "NL">>,
       <<"belgium", "BE">>, <<"be", "BE">>, <<"sweden", "SE">>,
       <<"se", "SE">>, <<"poland", "PL">>, <<"colombia", "CO">>,
       <<"mexico", "MX">> >>

TITLE_SYNONYMS ==
    << <<"swe", "software engineer">>, <<"software eng", "software engineer">>,
       <<"sw eng", "software engineer">>, <<"frontend", "front end">>,
       <<"front-end", "front end">>, <<"backend", "back end">>,
       <<"back-end", "back end">>, <<"fullstack", "full stack">>,
       <<"full-stack", "full stack">>, <<"pm", "product manager">>,
       <<"prod mgr", "product manager">>, <<"product owner", "product manager">>,
       <<"ds", "data scientist">>, <<"ml", "machine learning">>,
       <<"mle", "machine learning engineer">>,
       <<"sre", "site reliability engineer">>, <<"devops", "devops">>,
       <<"sec eng", "security engineer">>, <<"infosec", "security">> >>

\* The places of the table whose key satisfies P, in the table's order.
CountryKeysIn(t) ==
    {i \in 1..Len(COUNTRY_NORM) : Contains(t, COUNTRY_NORM[i][1])}

CountryKeysEqual(t) ==
    {i \in 1..Len(COUNTRY_NORM) : COUNTRY_NORM[i][1] = t}

MinOf(S) == CHOOSE i \in S : \A j \in S : i <= j

normalize_country(q) ==
    IF q = "" THEN ""
    ELSE LET t == Lower(Strip(q))
         IN  IF CountryKeysEqual(t) # {}
             THEN COUNTRY_NORM[MinOf(CountryKeysEqual(t))][2]
             ELSE IF Len(t) = 2 /\ IsAlpha(t)
             THEN Upper(t)
             ELSE IF CountryKeysIn(t) # {}
             THEN COUNTRY_NORM[MinOf(CountryKeysIn(t))][2]
             ELSE Strip(q)

\* The synonym loop of normalize_title from the table's place i on.
RECURSIVE ApplySynonyms(_, _)
ApplySynonyms(s, i) ==
    IF i > Len(TITLE_SYNONYMS) THEN s
    ELSE ApplySynonyms(
             IF Contains(s, TITLE_SYNONYMS[i][1])
             THEN Replace(s, TITLE_SYNONYMS[i][1], TITLE_SYNONYMS[i][2])
             ELSE s,
             i + 1)

normalize_title(q) ==
    IF q = "" THEN ""
    ELSE Strip(CollapseSpace(
             SubNotIn(ApplySynonyms(Lower(q), 1),
                      WordChars \cup Whitespace \cup {"-", "/"})))

(***************************************************************************)
(* Inputs of the normaliser: every string over NormAlphabet of at most     *)
(* MaxNormLen characters, and the strings the specification names.         *)
(***************************************************************************)
NormAlphabet == {"a", "t", "s", "w", "e", " ", ".", "X"}

RECURSIVE StringsUpTo(_, _)
StringsUpTo(alphabet, n) ==
    IF n = 0 THEN {""}
    ELSE LET shorter == StringsUpTo(alphabet, n - 1)
         IN  shorter \cup {s \o c : s \in shorter, c \in alphabet}

NormSamples ==
    {"Atlantis", "Deutschland", "xy", "I live in Switzerland", " Narnia ",
     "Germany", "software engineer", "Senior SWE!", "prod  mgr", "frontend",
     "full-stack dev", "pm", "C++ / ml"}

NormInputs == StringsUpTo(NormAlphabet, MaxNormLen) \cup NormSamples

NoFile == [exists |-> FALSE, content |-> <<>>, mtime |-> 0]

NoCache == [path |-> None, mtime |-> 0, map |-> <<>>]

InitNorm ==
    /\ op = "start"
    /\ inp \in NormInputs
    /\ out = None
    /\ file = NoFile
    /\ cache = NoCache

\* A call normalize_country(inp).
CallNormalizeCountry ==
    /\ op = "start"
    /\ op' = "normalize_country"
    /\ out' = normalize_country(inp)
    /\ UNCHANGED <<inp, file, cache>>

\* A call normalize_title(inp).
CallNormalizeTitle ==
    /\ op = "start"
    /\ op' = "normalize_title"
    /\ out' = normalize_title(inp)
    /\ UNCHANGED <<inp, file, cache>>

\* The request path: index() normalises the title, and filter_jobs
\* normalises what index() hands it once more.
CallNormalizeTitleInRequest ==
    /\ op = "start"
    /\ op' = "index"
    /\ out' = [title_q |-> normalize_title(inp),
               tq |-> normalize_title(normalize_title(inp))]
    /\ UNCHANGED <<inp, file, cache>>

NextNorm ==
    \/ CallNormalizeCountry
    \/ CallNormalizeTitle
    \/ CallNormalizeTitleInRequest

SpecNorm == InitNorm /\ [][NextNorm]_vars

(***************************************************************************)
(* C7.  normalize_country passes an input that names no known country      *)
(* through unchanged (trimmed, mapped to no code), as "Atlantis", while    *)
(* "Deutschland" gives "DE", "xy" gives "XY" and "I live in Switzerland"   *)
(* gives "CH".  An input names a known country when, trimmed and in lower  *)
(* case, it is a key of the table or two letters, or holds a key as a word *)
(* of its own.  The code fails this: a key inside a longer word counts.    *)
(***************************************************************************)
IsWordAt(t, k, i) ==
    /\ StartsAt(t, k, i)
    /\ i = 1 \/ Char(t, i - 1) \notin Letters
    /\ i + Len(k) > Len(t) \/ Char(t, i + Len(k)) \notin Letters

NamesKnownCountry(q) ==
    LET t == Lower(Strip(q))
    IN  \/ CountryKeysEqual(t) # {}
        \/ Len(t) = 2 /\ IsAlpha(t)
        \/ \E n \in 1..Len(COUNTRY_NORM) :
               \E i \in 1..Len(t) : IsWordAt(t, COUNTRY_NORM[n][1], i)

C7_UnknownCountryPassesThrough ==
    op = "normalize_country" =>
        /\ inp = "Deutschland" => out = "DE"
        /\ inp = "xy" => out = "XY"
        /\ inp = "I live in Switzerland" => out = "CH"
        /\ inp = "Atlantis" => out = "Atlantis"
        /\ ~NamesKnownCountry(inp) => out = Strip(inp)

(***************************************************************************)
(* C10.  normalize_title is idempotent: the title filter_jobs matches on,  *)
(* normalised in index() and again in filter_jobs, is the title normalised *)
(* once.  The code fails this: "software eng" is replaced inside           *)
(* "software engineer".                                                    *)
(***************************************************************************)
C10_NormalizeTitleIdempotent ==
    op = "index" => out.tq = out.title_q

(***************************************************************************)
(* The money expression parser.                                            *)
(***************************************************************************)
\* The class [\d,.\s] of the number pattern.
NumClass == Digits \cup {",", "."} \cup Whitespace

\* The class of the range separator as src/app.py holds it: a hyphen and
\* the three characters U+00E2, U+20AC, U+201C.
RangeSeps == {"-", "~", "!", "?"}

IsDigitAt(s, i) == i >= 1 /\ i <= Len(s) /\ Char(s, i) \in Digits

\* The last place of the greedy run [\d,.\s]* that goes on after place e.
RECURSIVE RunEnd(_, _)
RunEnd(s, e) ==
    IF e < Len(s) /\ Char(s, e + 1) \in NumClass THEN RunEnd(s, e + 1) ELSE e

\* The last place of a match of \d[\d,.\s]*k? that starts at the digit at i.
NumEnd(s, i) ==
    LET e == RunEnd(s, i)
    IN  IF e < Len(s) /\ Char(s, e + 1) \in {"k", "K"} THEN e + 1 ELSE e

\* The first place from j on that holds no whitespace (Len(s) + 1 if none).
RECURSIVE SkipSpace(_, _)
SkipSpace(s, j) ==
    IF j <= Len(s) /\ Char(s, j) \in Whitespace THEN SkipSpace(s, j + 1) ELSE j

NoMatch == [ok |-> FALSE]

\* A match of (\d[\d,.\s]*k?)\s*[-...]\s*(\d[\d,.\s]*k?) starting at place i.
RangeAt(s, i) ==
    IF ~IsDigitAt(s, i) THEN NoMatch
    ELSE LET e1 == NumEnd(s, i)
             d  == SkipSpace(s, e1 + 1)
             j  == SkipSpace(s, d + 1)
         IN  IF d <= Len(s) /\ Char(s, d) \in RangeSeps /\ IsDigitAt(s, j)
             THEN [ok |-> TRUE, start |-> i, end |-> NumEnd(s, j),
                   g1 |-> SubSeq(s, i, e1), g2 |-> SubSeq(s, j, NumEnd(s, j))]
             ELSE NoMatch

\* A match of c\s*=?\s*(\d[\d,.\s]*k?) starting at place i, c being > or <.
CompareAt(s, c, i) ==
    IF ~(i <= Len(s) /\ Char(s, i) = c) THEN NoMatch
    ELSE LET a == SkipSpace(s, i + 1)
             b == IF a <= Len(s) /\ Char(s, a) = "=" THEN a + 1 ELSE a
             j == SkipSpace(s, b)
         IN  IF IsDigitAt(s, j)
             THEN [ok |-> TRUE, start |-> i, end |-> NumEnd(s, j),
                   g1 |-> SubSeq(s, j, NumEnd(s, j))]
             ELSE NoMatch

\* A match of (\d[\d,.\s]*k?) starting at place i.
BareAt(s, i) ==
    IF ~IsDigitAt(s, i) THEN NoMatch
    ELSE [ok |-> TRUE, start |-> i, end |-> NumEnd(s, i),
          g1 |-> SubSeq(s, i, NumEnd(s, i))]

\* re.search: the match at the leftmost place that has one.
SearchRange(s) ==
    LET at == {i \in 1..Len(s) : RangeAt(s, i).ok}
    IN  IF at = {} THEN NoMatch ELSE RangeAt(s, MinOf(at))

SearchCompare(s, c) ==
    LET at == {i \in 1..Len(s) : CompareAt(s, c, i).ok}
    IN  IF at = {} THEN NoMatch ELSE CompareAt(s, c, MinOf(at))

SearchBare(s) ==
    LET at == {i \in 1..Len(s) : BareAt(s, i).ok}
    IN  IF at = {} THEN NoMatch ELSE BareAt(s, MinOf(at))

\* re.findall(r'(?i)\d[\d,.\s]*k?+', s) from place from on.
RECURSIVE FindAllNums(_, _)
FindAllNums(s, from) ==
    LET at == {i \in from..Len(s) : IsDigitAt(s, i)}
    IN  IF at = {} THEN <<>>
        ELSE <<SubSeq(s, MinOf(at), NumEnd(s, MinOf(at)))>>
             \o FindAllNums(s, NumEnd(s, MinOf(at)) + 1)

\* s.replace(c, "") for every character c of drop.
RECURSIVE RemoveChars(_, _)
RemoveChars(s, drop) ==
    IF s = "" THEN ""
    ELSE (IF Char(s, 1) \in drop THEN "" ELSE Char(s, 1))
         \o RemoveChars(Tail(s), drop)

\* s.rstrip("k")
RECURSIVE RStripK(_)
RStripK(s) ==
    IF s # "" /\ Char(s, Len(s)) = "k"
    THEN RStripK(SubSeq(s, 1, Len(s) - 1))
    ELSE s

DigitValue(c) == CHOOSE n \in 0..9 : Char("0123456789", n + 1) = c

\* int(s) for a string of digits.
RECURSIVE ToInt(_)
ToInt(s) ==
    IF s = "" THEN 0
    ELSE 10 * ToInt(SubSeq(s, 1, Len(s) - 1)) + DigitValue(Char(s, Len(s)))

\* The body of parse_money_numbers' loop: the numbers (none or one) that
\* one match raw adds to nums.
MoneyOf(raw) ==
    LET clean  == RemoveChars(Lower(raw), {",", " "})
        mult   == IF clean # "" /\ Char(clean, Len(clean)) = "k" THEN 1000 ELSE 1
        digits == RemoveChars(RStripK(clean), {"."})
    IN  IF IsDigit(digits) THEN <<ToInt(digits) * mult>> ELSE <<>>

RECURSIVE MoneyOfAll(_)
MoneyOfAll(raws) ==
    IF raws = <<>> THEN <<>> ELSE MoneyOf(Head(raws)) \o MoneyOfAll(Tail(raws))

parse_money_numbers(text) ==
    IF text = "" THEN <<>> ELSE MoneyOfAll(FindAllNums(text, 1))

\* nums[0] if nums else None, and nums[-1] if nums else None
FirstOrNone(nums) == IF nums = <<>> THEN None ELSE Some(nums[1])

LastOrNone(nums) == IF nums = <<>> THEN None ELSE Some(nums[Len(nums)])

\* s[:m.start()] + s[m.end():], stripped.
CutSpan(s, m) ==
    Strip(SubSeq(s, 1, m.start - 1) \o SubSeq(s, m.end + 1, Len(s)))

\* A slip in parse_salary_query: the < pattern is tried before the >
\* pattern.
parse_salary_query_lt_first(q) ==
    IF q = "" THEN [text |-> "", floor |-> None, ceiling |-> None]
    ELSE LET s  == Strip(q)
             mr == SearchRange(s)
             mg == SearchCompare(s, ">")
             ml == SearchCompare(s, "<")
             mb == SearchBare(s)
         IN  IF mr.ok
             THEN [text |-> CutSpan(s, mr),
                   floor |-> FirstOrNone(parse_money_numbers(mr.g1)),
                   ceiling |-> LastOrNone(parse_money_numbers(mr.g2))]
             ELSE IF ml.ok
             THEN [text |-> CutSpan(s, ml),
                   floor |-> None,
                   ceiling |-> FirstOrNone(parse_money_numbers(ml.g1))]
             ELSE IF mg.ok
             THEN [text |-> CutSpan(s, mg),
                   floor |-> FirstOrNone(parse_money_numbers(mg.g1)),
                   ceiling |-> None]
             ELSE IF mb.ok
             THEN [text |-> CutSpan(s, mb),
                   floor |-> FirstOrNone(parse_money_numbers(mb.g1)),
                   ceiling |-> None]
             ELSE [text |-> s, floor |-> None, ceiling |-> None]

parse_salary_query(q) ==
    IF q = "" THEN [text |-> "", floor |-> None, ceiling |-> None]
    ELSE LET s  == Strip(q)
             mr == SearchRange(s)
             mg == SearchCompare(s, ">")
             ml == SearchCompare(s, "<")
             mb == SearchBare(s)
         IN  IF mr.ok
             THEN [text |-> CutSpan(s, mr),
                   floor |-> FirstOrNone(parse_money_numbers(mr.g1)),
                   ceiling |-> LastOrNone(parse_money_numbers(mr.g2))]
             ELSE IF mg.ok
             THEN [text |-> CutSpan(s, mg),
                   floor |-> FirstOrNone(parse_money_numbers(mg.g1)),
                   ceiling |-> None]
             ELSE IF ml.ok
             THEN [text |-> CutSpan(s, ml),
                   floor |-> None,
                   ceiling |-> FirstOrNone(parse_money_numbers(ml.g1))]
             ELSE IF mb.ok
             THEN [text |-> CutSpan(s, mb),
                   floor |-> FirstOrNone(parse_money_numbers(mb.g1)),
                   ceiling |-> None]
             ELSE [text |-> s, floor |-> None, ceiling |-> None]

(***************************************************************************)
(* Inputs of the parser: every string over ParseAlphabet of at most        *)
(* MaxParseLen characters, and longer ones.                                *)
(***************************************************************************)
ParseAlphabet == {"1", "k", " ", "\t", "-", ">", "<", "a"}

ParseSamples ==
    {"backend 90k-110k", ">100k engineer", "<=90k", "120k dev", "dev",
     "9 0 k - 1,1.0K x", "1-2-3", "<5 >3", "> = 5 x", ">=\t5", "5~7", "5 ! 7",
     "5?7", "a>b 5", "5k k", " abc ", "1\t0-20", "90\t-100", "x - 5",
     "c++ 1.200", "5 -7 8", ">5-7", "<5-7", "0", "x<\t1 0"}

ParseInputs == StringsUpTo(ParseAlphabet, MaxParseLen) \cup ParseSamples

InitParse ==
    /\ op = "start"
    /\ inp \in ParseInputs
    /\ out = None
    /\ file = NoFile
    /\ cache = NoCache

\* A call parse_salary_query(inp).
CallParseSalaryQuery ==
    /\ op = "start"
    /\ op' = "parse_salary_query"
    /\ out' = parse_salary_query(inp)
    /\ UNCHANGED <<inp, file, cache>>

\* A call parse_money_numbers(inp).
CallParseMoneyNumbers ==
    /\ op = "start"
    /\ op' = "parse_money_numbers"
    /\ out' = parse_money_numbers(inp)
    /\ UNCHANGED <<inp, file, cache>>

NextParse ==
    \/ CallParseSalaryQuery
    \/ CallParseMoneyNumbers

SpecParse == InitParse /\ [][NextParse]_vars

(***************************************************************************)
(* What the claims about parse_salary_query speak of: the first pattern,   *)
(* in the order range, >, <, bare number, that matches the text q, and its *)
(* leftmost match.  The claims apply it to the trimmed input.              *)
(***************************************************************************)
FirstPattern(q) ==
    IF SearchRange(q).ok THEN [kind |-> "range", m |-> SearchRange(q)]
    ELSE IF SearchCompare(q, ">").ok
    THEN [kind |-> "gt", m |-> SearchCompare(q, ">")]
    ELSE IF SearchCompare(q, "<").ok
    THEN [kind |-> "lt", m |-> SearchCompare(q, "<")]
    ELSE IF SearchBare(q).ok THEN [kind |-> "bare", m |-> SearchBare(q)]
    ELSE [kind |-> "none", m |-> NoMatch]

\* The text of a number holds no whitespace but spaces.
OnlySpaces(g) ==
    \A i \in 1..Len(g) : Char(g, i) \in Whitespace => Char(g, i) = " "

\* The value of one matched number: absent when parse_money_numbers
\* discards it.
ValueOf(g) == FirstOrNone(parse_money_numbers(g))

C8_Examples ==
    /\ inp = "backend 90k-110k" =>
           out = [text |-> "backend", floor |-> Some(90000),
                  ceiling |-> Some(110000)]
    /\ inp = ">100k engineer" =>
           out = [text |-> "engineer", floor |-> Some(100000),
                  ceiling |-> None]

(***************************************************************************)
(* C8 as stated.  parse_salary_query takes the first of range, >, <, bare  *)
(* number that matches: a range sets floor and ceiling, > only the floor,  *)
(* < only the ceiling, a bare number only the floor; with no match the     *)
(* text is returned as it is (trimmed, like every returned text) with both *)
(* bounds absent; the returned text is the input with exactly the matched  *)
(* span removed, trimmed.                                                  *)
(***************************************************************************)
C8_Stated ==
    op = "parse_salary_query" =>
        LET p == FirstPattern(Strip(inp))
        IN  /\ p.kind = "range" => out.floor # None /\ out.ceiling # None
            /\ p.kind = "gt" => out.floor # None /\ out.ceiling = None
            /\ p.kind = "lt" => out.floor = None /\ out.ceiling # None
            /\ p.kind = "bare" => out.floor # None /\ out.ceiling = None
            /\ p.kind = "none" =>
                   out = [text |-> Strip(inp), floor |-> None,
                          ceiling |-> None]
            /\ p.kind # "none" => out.text = CutSpan(Strip(inp), p.m)
            /\ C8_Examples

(***************************************************************************)
(* C8 as amended.  The same priority order and the same returned text,     *)
(* but a bound that a pattern sets is the value parse_money_numbers gives  *)
(* the matched number: it is absent when that number holds whitespace      *)
(* other than a space and present otherwise.                               *)
(***************************************************************************)
C8_PriorityOrder ==
    op = "parse_salary_query" =>
        LET p == FirstPattern(Strip(inp))
        IN  /\ p.kind = "range" =>
                   /\ out.floor = ValueOf(p.m.g1)
                   /\ out.ceiling = ValueOf(p.m.g2)
                   /\ OnlySpaces(p.m.g1) <=> out.floor # None
                   /\ OnlySpaces(p.m.g2) <=> out.ceiling # None
            /\ p.kind \in {"gt", "bare"} =>
                   /\ out.floor = ValueOf(p.m.g1)
                   /\ OnlySpaces(p.m.g1) <=> out.floor # None
                   /\ out.ceiling = None
            /\ p.kind = "lt" =>
                   /\ out.ceiling = ValueOf(p.m.g1)
                   /\ OnlySpaces(p.m.g1) <=> out.ceiling # None
                   /\ out.floor = None
            /\ p.kind = "none" =>
                   out = [text |-> Strip(inp), floor |-> None,
                          ceiling |-> None]
            /\ p.kind # "none" => out.text = CutSpan(Strip(inp), p.m)
            /\ C8_Examples

C8_Witness ==
    /\ op = "parse_salary_query"
    /\ inp = "<5 >3"
    /\ FirstPattern(Strip(inp)).kind = "gt"
    /\ out = [text |-> "<5", floor |-> Some(3), ceiling |-> None]

(***************************************************************************)
(* The filter engine.  A listing is a dict: a function from its keys.      *)
(***************************************************************************)
\* j.get(k)
Get(j, k) == IF k \in DOMAIN j THEN j[k] ELSE None

\* A slip in job_effective_salary_range: the reference range is never
\* consulted.
job_effective_salary_range_own_only(j) ==
    IF Truthy(Get(j, "salary_min")) \/ Truthy(Get(j, "salary_max"))
    THEN <<Get(j, "salary_min"), Get(j, "salary_max")>>
    ELSE <<None, None>>

job_effective_salary_range(j) ==
    IF Truthy(Get(j, "salary_min")) \/ Truthy(Get(j, "salary_max"))
    THEN <<Get(j, "salary_min"), Get(j, "salary_max")>>
    ELSE IF Truthy(Get(j, "ref_salary_min")) \/ Truthy(Get(j, "ref_salary_max"))
    THEN <<Get(j, "ref_salary_min"), Get(j, "ref_salary_max")>>
    ELSE <<None, None>>

\* The characters of a token: [\w+].
TokenChars == WordChars \cup {"+"}

\* The last place of the run of token characters that goes on after place e.
RECURSIVE TokenEnd(_, _)
TokenEnd(s, e) ==
    IF e < Len(s) /\ Char(s, e + 1) \in TokenChars THEN TokenEnd(s, e + 1) ELSE e

\* The non-empty pieces of re.split(r"[^\w+]+", s).
RECURSIVE SplitTokens(_)
SplitTokens(s) ==
    IF s = "" THEN <<>>
    ELSE IF Char(s, 1) \in TokenChars
         THEN <<SubSeq(s, 1, TokenEnd(s, 1))>>
              \o SplitTokens(SubSeq(s, TokenEnd(s, 1) + 1, Len(s)))
         ELSE SplitTokens(Tail(s))

_tokens(text) == SplitTokens(Lower(text))

\* A slip in _fuzzy_match: any() for all().
_fuzzy_match_any(needle, hay) ==
    IF needle = "" THEN TRUE
    ELSE \E n \in 1..Len(_tokens(needle)) :
             Contains(Lower(hay), _tokens(needle)[n])

_fuzzy_match(needle, hay) ==
    IF needle = "" THEN TRUE
    ELSE \A n \in 1..Len(_tokens(needle)) :
             Contains(Lower(hay), _tokens(needle)[n])

\* The text filter_jobs matches the title on.
ListingText(r) == r["title"] \o " " \o r["company"] \o " " \o r["description"]

\* filter_jobs' salary test of row r, one of the bounds being given.
SalaryOk(r, sal_min_req, sal_max_req) ==
    LET eff  == job_effective_salary_range(r)
        jmin == IF eff[1] = None THEN Some(0) ELSE eff[1]
        jmax == IF eff[2] = None THEN Some(Max2(jmin[1], jmin[1])) ELSE eff[2]
    IN  IF eff[1] = None /\ eff[2] = None THEN FALSE
        ELSE /\ ~(sal_min_req # None /\ jmax[1] < sal_min_req[1])
             /\ ~(sal_max_req # None /\ jmin[1] > sal_max_req[1])

\* The value of ok at line 337 for row r, tq and cq being the normalised
\* title and country.
RowOk(r, tq, cq, sal_min_req, sal_max_req) ==
    /\ ~(tq # "" /\ ~_fuzzy_match(tq, ListingText(r)))
    /\ ~(cq # "" /\ ~Contains(Lower(r["location"]), Lower(cq)))
    /\ (sal_min_req # None \/ sal_max_req # None)
           => SalaryOk(r, sal_min_req, sal_max_req)

RECURSIVE Reverse(_)
Reverse(seq) ==
    IF seq = <<>> THEN <<>> ELSE Reverse(Tail(seq)) \o <<Head(seq)>>

\* A slip in filter_jobs: out.insert(0, r) for out.append(r).
filter_jobs_prepend(rows, title_q, country_q, sal_min_req, sal_max_req) ==
    Reverse(SelectSeq(rows,
        LAMBDA r : RowOk(r, normalize_title(title_q),
                         normalize_country(country_q),
                         sal_min_req, sal_max_req)))

filter_jobs(rows, title_q, country_q, sal_min_req, sal_max_req) ==
    SelectSeq(rows,
        LAMBDA r : RowOk(r, normalize_title(title_q),
                         normalize_country(country_q),
                         sal_min_req, sal_max_req))

(***************************************************************************)
(* Inputs of the filter.  A listing's own salary is what                   *)
(* parse_salary_range_from_text gives: nothing, one number, or a minimum   *)
(* and a maximum not below it.  Its reference fields are missing, or hold  *)
(* what a row of the reference file gave: numbers or None.                 *)
(***************************************************************************)
Salaries == {0, 3000, 6000}

OptSalaries == {None} \cup {Some(v) : v \in Salaries}

OwnRanges ==
    {<<None, None>>} \cup {<<Some(v), None>> : v \in Salaries}
    \cup {<<Some(ab[1]), Some(ab[2])>> :
              ab \in {x \in Salaries \X Salaries : x[1] <= x[2]}}

RequestBounds == {None, Some(0), Some(3000), Some(4000), Some(6000), Some(7000)}

Listing(title, company, description, location, own) ==
    [title |-> title, company |-> company, description |-> description,
     location |-> location, salary_min |-> own[1], salary_max |-> own[2]]

\* The listing with the reference fields enrichment adds.
WithRef(j, ref_min, ref_median) ==
    [k \in DOMAIN j \cup {"ref_salary_min", "ref_salary_max"} |->
        IF k = "ref_salary_min" THEN ref_min
        ELSE IF k = "ref_salary_max" THEN ref_median
        ELSE j[k]]

SalaryListings ==
    LET plain == {Listing("Data Engineer", "Acme", "Pipelines", "Berlin, DE", own) :
                      own \in OwnRanges}
    IN  plain \cup {WithRef(j, a, b) : j \in plain, a \in OptSalaries,
                                       b \in OptSalaries}

\* One listing in every salary shape against every pair of bounds.
SalaryCases ==
    {[rows |-> <<j>>, title_q |-> "", country_q |-> "",
      sal_min_req |-> lo, sal_max_req |-> hi] :
        j \in SalaryListings, lo \in RequestBounds, hi \in RequestBounds}

TextListings ==
    {Listing("Software Engineer", "Acme", "Build back end services",
             "Berlin, DE", <<Some(3000), Some(6000)>>),
     WithRef(Listing("Front End Developer", "Widget AG", "React + C++",
                     "Zurich, CH", <<None, None>>), Some(3000), Some(6000)),
     Listing("Product Manager", "Roadmap Ltd", "Own the roadmap", "Remote",
             <<None, None>>),
     Listing("SWE Intern", "Frontend Co", "pm tooling", "Vienna, Austria",
             <<Some(0), None>>)}

TitleQueries == {"", "swe", "frontend", "pm", "Engineer", "c++ react", "!!", "end"}

CountryQueries == {"", "Germany", "ch", "Atlantis"}

RECURSIVE SeqsUpTo(_, _)
SeqsUpTo(S, n) ==
    IF n = 0 THEN {<<>>}
    ELSE LET shorter == SeqsUpTo(S, n - 1)
         IN  shorter \cup {Append(q, x) : q \in shorter, x \in S}

TextCases ==
    {[rows |-> rows, title_q |-> t, country_q |-> c,
      sal_min_req |-> lo, sal_max_req |-> hi] :
        rows \in SeqsUpTo(TextListings, MaxRows), t \in TitleQueries,
        c \in CountryQueries, lo \in {None, Some(4000)},
        hi \in {None, Some(3000)}}

InitFilter ==
    /\ op = "start"
    /\ inp \in SalaryCases \cup TextCases
    /\ out = None
    /\ file = NoFile
    /\ cache = NoCache

\* A call filter_jobs(rows, title_q, country_q, sal_min_req, sal_max_req).
CallFilterJobs ==
    /\ op = "start"
    /\ op' = "filter_jobs"
    /\ out' = filter_jobs(inp.rows, inp.title_q, inp.country_q,
                          inp.sal_min_req, inp.sal_max_req)
    /\ UNCHANGED <<inp, file, cache>>

\* filter_jobs called on its own result with the same query.
CallFilterJobsAgain ==
    /\ op = "filter_jobs"
    /\ op' = "filter_jobs again"
    /\ out' = [once |-> out,
               twice |-> filter_jobs(out, inp.title_q, inp.country_q,
                                     inp.sal_min_req, inp.sal_max_req)]
    /\ UNCHANGED <<inp, file, cache>>

NextFilter ==
    \/ CallFilterJobs
    \/ CallFilterJobsAgain

SpecFilter == InitFilter /\ [][NextFilter]_vars

(***************************************************************************)
(* The salary test as the claims describe it.  The range is a pair of      *)
(* optional numbers; an absent low end counts as 0 and an absent high end  *)
(* as the low end.                                                         *)
(***************************************************************************)
RangeMeets(eff, floor, ceiling) ==
    /\ eff # <<None, None>>
    /\ LET low  == IF eff[1] = None THEN 0 ELSE eff[1][1]
           high == IF eff[2] = None THEN low ELSE eff[2][1]
       IN  /\ floor # None => high >= floor[1]
           /\ ceiling # None => low <= ceiling[1]

OwnRange(j) == <<Get(j, "salary_min"), Get(j, "salary_max")>>

RefRange(j) == <<Get(j, "ref_salary_min"), Get(j, "ref_salary_max")>>

HasTruthy(range) == Truthy(range[1]) \/ Truthy(range[2])

\* A request with a salary bound and no title or country to match.
SalaryOnlyRequest ==
    /\ op = "filter_jobs"
    /\ inp.title_q = "" /\ inp.country_q = ""
    /\ inp.sal_min_req # None \/ inp.sal_max_req # None

C1_Example ==
    \A i \in 1..Len(inp.rows) :
        (/\ Len(inp.rows) = 1
         /\ OwnRange(inp.rows[i]) = <<None, None>>
         /\ RefRange(inp.rows[i]) = <<Some(3000), Some(6000)>>
         /\ inp.sal_max_req = None)
        => /\ inp.sal_min_req = Some(4000) => out = inp.rows
           /\ inp.sal_min_req = Some(7000) => out = <<>>

(***************************************************************************)
(* C1 as stated.  With a salary bound given, filter_jobs' salary test      *)
(* passes a listing exactly when its effective range is not entirely       *)
(* absent and meets the bounds, the effective range being the listing's    *)
(* own range if either end is truthy and its reference range otherwise.    *)
(***************************************************************************)
C1_Stated ==
    SalaryOnlyRequest =>
        /\ out = SelectSeq(inp.rows,
               LAMBDA j : RangeMeets(
                   IF HasTruthy(OwnRange(j)) THEN OwnRange(j) ELSE RefRange(j),
                   inp.sal_min_req, inp.sal_max_req))
        /\ C1_Example

(***************************************************************************)
(* C1 as amended.  The same, but the reference range is the effective      *)
(* range only if one of its ends is truthy: a listing none of whose four   *)
(* salary fields is truthy has an entirely absent effective range and      *)
(* fails the salary test, a reference range of 0..0 included.              *)
(***************************************************************************)
C1_SalaryTest ==
    SalaryOnlyRequest =>
        /\ out = SelectSeq(inp.rows,
               LAMBDA j : RangeMeets(
                   IF HasTruthy(OwnRange(j)) THEN OwnRange(j)
                   ELSE IF HasTruthy(RefRange(j)) THEN RefRange(j)
                   ELSE <<None, None>>,
                   inp.sal_min_req, inp.sal_max_req))
        /\ C1_Example

C1_Witness ==
    /\ SalaryOnlyRequest
    /\ Len(inp.rows) = 1
    /\ OwnRange(inp.rows[1]) = <<None, None>>
    /\ RefRange(inp.rows[1]) = <<Some(3000), Some(6000)>>
    /\ inp.sal_min_req = Some(4000) /\ inp.sal_max_req = None
    /\ out = inp.rows

(***************************************************************************)
(* C5.  filter_jobs is idempotent and stable: filtering its result again   *)
(* with the same query changes nothing, and its result is a subsequence of *)
(* the rows, in their order.                                               *)
(***************************************************************************)
RECURSIVE IsSubseq(_, _)
IsSubseq(a, b) ==
    IF a = <<>> THEN TRUE
    ELSE IF b = <<>> THEN FALSE
    ELSE IF Head(a) = Head(b) THEN IsSubseq(Tail(a), Tail(b))
    ELSE IsSubseq(a, Tail(b))

C5_FilterIdempotentStable ==
    /\ op = "filter_jobs" => IsSubseq(out, inp.rows)
    /\ op = "filter_jobs again" =>
           /\ out.twice = out.once
           /\ IsSubseq(out.once, inp.rows)

C5_Witness ==
    /\ op = "filter_jobs again"
    /\ Len(inp.rows) = 2
    /\ inp.rows[1] # inp.rows[2]
    /\ inp.title_q # "" /\ inp.sal_min_req # None
    /\ out.once = <<inp.rows[2]>>
    /\ out.twice = out.once

(***************************************************************************)
(* The title test as the claims describe it: every token of the query q is *)
(* a substring of the lowercased title, company and description of j.      *)
(***************************************************************************)
AllTokensIn(q, j) ==
    \A n \in 1..Len(_tokens(q)) : Contains(Lower(ListingText(j)), _tokens(q)[n])

\* A request with neither a country nor a salary bound.
TitleOnlyRequest ==
    /\ op = "filter_jobs"
    /\ inp.country_q = ""
    /\ inp.sal_min_req = None /\ inp.sal_max_req = None

(***************************************************************************)
(* C6 as stated.  For a non-empty titleQuery a listing passes only if      *)
(* every lowercase token of titleQuery is a substring of its text; an      *)
(* empty titleQuery passes every listing.                                  *)
(***************************************************************************)
C6_Stated ==
    op = "filter_jobs" =>
        /\ inp.title_q # "" =>
               \A i \in 1..Len(out) : AllTokensIn(inp.title_q, out[i])
        /\ TitleOnlyRequest /\ inp.title_q = "" => out = inp.rows

(***************************************************************************)
(* C6 as amended.  The tokens are those of normalize_title(titleQuery),    *)
(* which filter_jobs computes first: a listing passes only if every        *)
(* lowercase token of the normalised titleQuery is a substring of its      *)
(* text, and exactly then when no other test applies; a titleQuery whose   *)
(* normalised form is empty passes every listing.                          *)
(***************************************************************************)
C6_TitleTest ==
    op = "filter_jobs" =>
        LET tq == normalize_title(inp.title_q)
        IN  /\ tq # "" => \A i \in 1..Len(out) : AllTokensIn(tq, out[i])
            /\ TitleOnlyRequest =>
                   out = SelectSeq(inp.rows,
                             LAMBDA j : tq = "" \/ AllTokensIn(tq, j))
            /\ TitleOnlyRequest /\ tq = "" => out = inp.rows

C6_Witness ==
    /\ TitleOnlyRequest
    /\ inp.title_q = "frontend"
    /\ Len(inp.rows) = 2
    /\ Len(out) = 1
    /\ out[1]["title"] = "Front End Developer"
    /\ ~AllTokensIn(inp.title_q, out[1])

(***************************************************************************)
(* The paginator.                                                          *)
(***************************************************************************)
PER_PAGE_MAX == 100

\* items[a:b] of a list, for 0 <= a.
SliceSeq(items, a, b) ==
    IF Min2(b, Len(items)) <= a THEN <<>>
    ELSE SubSeq(items, a + 1, Min2(b, Len(items)))

\* A slip in paginate: the page count rounds down.
paginate_floor(items, page, per_page) ==
    LET total == Len(items)
        pg    == IF page < 1 THEN 1 ELSE page
        pp    == Min2(Max2(1, per_page), PER_PAGE_MAX)
        start == (pg - 1) * pp
        end   == start + pp
        pages == total \div pp
    IN  [items |-> SliceSeq(items, start, end), page |-> pg, per_page |-> pp,
         total |-> total, pages |-> pages, has_prev |-> pg > 1,
         has_next |-> pg < pages]

paginate(items, page, per_page) ==
    LET total == Len(items)
        pg    == IF page < 1 THEN 1 ELSE page
        pp    == Min2(Max2(1, per_page), PER_PAGE_MAX)
        start == (pg - 1) * pp
        end   == start + pp
        pages == (total + pp - 1) \div pp
    IN  [items |-> SliceSeq(items, start, end), page |-> pg, per_page |-> pp,
         total |-> total, pages |-> pages, has_prev |-> pg > 1,
         has_next |-> pg < pages]

(***************************************************************************)
(* Inputs of the paginator: lists of 0..MaxItems items and lists longer    *)
(* than one and two pages of PER_PAGE_MAX, any page, any page size.        *)
(***************************************************************************)
ItemCounts == 0..MaxItems \cup {PER_PAGE_MAX, PER_PAGE_MAX + 1, 2 * PER_PAGE_MAX + 1}

PageRequests == -1..(MaxItems + 1)

PerPageRequests == -1..MaxItems \cup {PER_PAGE_MAX, PER_PAGE_MAX + 1, 99999}

InitPaginate ==
    /\ op = "start"
    /\ inp \in {[items |-> [i \in 1..n |-> i], page |-> pg, per_page |-> pp] :
                   n \in ItemCounts, pg \in PageRequests, pp \in PerPageRequests}
    /\ out = None
    /\ file = NoFile
    /\ cache = NoCache

\* A call paginate(items, page, per_page).
CallPaginate ==
    /\ op = "start"
    /\ op' = "paginate"
    /\ out' = paginate(inp.items, inp.page, inp.per_page)
    /\ UNCHANGED <<inp, file, cache>>

\* A reader begins to walk the pages: page 1.
WalkFirstPage ==
    /\ op = "start"
    /\ op' = "walk"
    /\ LET pg == paginate(inp.items, 1, inp.per_page)
       IN  out' = [pg |-> pg, seen |-> pg.items, lens |-> Len(pg.items)]
    /\ UNCHANGED <<inp, file, cache>>

\* The reader follows the pagination to the next page while it is one of
\* the pages 1..pages.
WalkNextPage ==
    /\ op = "walk"
    /\ out.pg.page < out.pg.pages
    /\ LET pg == paginate(inp.items, out.pg.page + 1, inp.per_page)
       IN  out' = [pg |-> pg, seen |-> out.seen \o pg.items,
                   lens |-> out.lens + Len(pg.items)]
    /\ UNCHANGED <<op, inp, file, cache>>

NextPaginate ==
    \/ CallPaginate
    \/ WalkFirstPage
    \/ WalkNextPage

SpecPaginate == InitPaginate /\ [][NextPaginate]_vars

(***************************************************************************)
(* C2.  paginate returns a per_page within [1, 100], and the pages         *)
(* 1..pages partition the list: their items, concatenated in page order,   *)
(* are the input list, and their lengths add up to total.                  *)
(***************************************************************************)
C2_PagesPartition ==
    /\ op = "paginate" =>
           /\ out.per_page >= 1 /\ out.per_page <= 100
           /\ out.total = Len(inp.items)
    /\ op = "walk" =>
           /\ out.pg.per_page >= 1 /\ out.pg.per_page <= 100
           /\ out.pg.page <= out.pg.pages \/ out.pg.pages = 0
           /\ out.seen = SubSeq(inp.items, 1, Len(out.seen))
           /\ out.pg.page >= out.pg.pages =>
                  /\ out.seen = inp.items
                  /\ out.lens = out.pg.total

C2_Witness ==
    /\ op = "walk"
    /\ inp.per_page > PER_PAGE_MAX
    /\ out.pg.per_page = PER_PAGE_MAX
    /\ out.pg.page = 3 /\ out.pg.pages = 3
    /\ Len(out.pg.items) = 1
    /\ out.seen = inp.items

(***************************************************************************)
(* The salary reference index.  A row of the reference file is a dict of   *)
(* optional strings: csv.DictReader gives None for a column a short line   *)
(* lacks.  A key of the index is <<Some(city), country>> or, for the       *)
(* country fallback (None, country), <<None, country>>.                    *)
(***************************************************************************)
SALARY_CSV == "salary.csv"

\* x or ""
OrEmpty(x) == IF x = None THEN "" ELSE x[1]

\* The place of the first "." of s, 0 if it has none.
DotAt(s) ==
    LET at == {i \in 1..Len(s) : Char(s, i) = "."}
    IN  IF at = {} THEN 0 ELSE MinOf(at)

\* int(float(s)) for the decimal forms [sign] digits [. digits], None for
\* text float() rejects.  Exponents, inf, nan and digit separators are not
\* among the modelled inputs.
IntOfFloat(s) ==
    LET t    == Strip(s)
        neg  == t # "" /\ Char(t, 1) = "-"
        u    == IF t # "" /\ Char(t, 1) \in {"-", "+"} THEN Tail(t) ELSE t
        d    == DotAt(u)
        whole == IF d = 0 THEN u ELSE SubSeq(u, 1, d - 1)
        frac == IF d = 0 THEN "" ELSE SubSeq(u, d + 1, Len(u))
        okay == /\ whole = "" \/ IsDigit(whole)
                /\ frac = "" \/ IsDigit(frac)
                /\ whole # "" \/ frac # ""
    IN  IF ~okay THEN None
        ELSE Some((IF neg THEN -1 ELSE 1) * ToInt(whole))

\* int(float(x)) if x not in (None, "") else None, None on an exception.
SalaryField(x) == IF x = None \/ x = Some("") THEN None ELSE IntOfFloat(x[1])

\* dict item assignment d[k] = v
Put(d, k, v) == [x \in DOMAIN d \cup {k} |-> IF x = k THEN v ELSE d[x]]

\* d.setdefault(k, v)
SetDefault(d, k, v) == IF k \in DOMAIN d THEN d ELSE Put(d, k, v)

RowCity(row) == Lower(Strip(OrEmpty(Get(row, "City"))))

RowCountry(row) == Lower(Strip(OrEmpty(Get(row, "Country"))))

RowCurrency(row) ==
    LET currency == Upper(Strip(OrEmpty(Get(row, "CurrencyTicker"))))
    IN  IF currency = "" THEN "USD" ELSE currency

\* The entry a row gives its (city, country) key.
CityEntry(row) ==
    [median |-> SalaryField(Get(row, "MedianSalary")),
     min |-> SalaryField(Get(row, "MinSalary")),
     currency |-> RowCurrency(row),
     label |-> IF Strip(OrEmpty(Get(row, "City"))) # ""
               THEN Strip(OrEmpty(Get(row, "City")))
               ELSE Strip(OrEmpty(Get(row, "Country")))]

\* The entry a row gives the fallback key of its country.
CountryEntry(row) ==
    [median |-> SalaryField(Get(row, "MedianSalary")),
     min |-> SalaryField(Get(row, "MinSalary")),
     currency |-> RowCurrency(row),
     label |-> Strip(OrEmpty(Get(row, "Country")))]

\* A slip in the loop body: the fallback is assigned, not set by default.
AddRow_overwrite(ref, row) ==
    IF RowCountry(row) = "" THEN ref
    ELSE Put(Put(ref, <<Some(RowCity(row)), RowCountry(row)>>, CityEntry(row)),
             <<None, RowCountry(row)>>, CountryEntry(row))

\* The body of the loop over the rows of the file.
AddRow(ref, row) ==
    IF RowCountry(row) = "" THEN ref
    ELSE SetDefault(
             Put(ref, <<Some(RowCity(row)), RowCountry(row)>>, CityEntry(row)),
             <<None, RowCountry(row)>>, CountryEntry(row))

\* The loop: ref after the rows from place i on.
RECURSIVE AddRows(_, _, _)
AddRows(ref, rows, i) ==
    IF i > Len(rows) THEN ref ELSE AddRows(AddRow(ref, rows[i]), rows, i + 1)

\* The index read_salary_reference builds from the rows of the file.
BuildIndex(rows) == AddRows(<<>>, rows, 1)

\* The lookup of enrich_with_salary_reference for a listing's raw City and
\* Country: the entry, or None.
Lookup(ref_map, City, Country) ==
    LET city    == Lower(Strip(OrEmpty(City)))
        country == Lower(Strip(OrEmpty(Country)))
    IN  IF <<Some(city), country>> \in DOMAIN ref_map
        THEN Some(ref_map[<<Some(city), country>>])
        ELSE IF <<None, country>> \in DOMAIN ref_map
        THEN Some(ref_map[<<None, country>>])
        ELSE None

(***************************************************************************)
(* Inputs of the index: every file of at most MaxRefRows rows over         *)
(* RefRows, looked up for every City and Country of LookupCities and       *)
(* LookupCountries.  MinSalary is the last column of the modelled files,   *)
(* so it is the one a short line lacks.                                    *)
(***************************************************************************)
RefRow(city, country, median, minval, currency) ==
    [City |-> city, Country |-> country, MedianSalary |-> median,
     MinSalary |-> minval, CurrencyTicker |-> currency]

RefRows ==
    {RefRow(Some(c), Some(k), sal[1], sal[2], sal[3]) :
        c \in {" Berlin", ""}, k \in {"DE", "ch ", ""},
        sal \in {<<Some("6000"), Some("3000"), Some("eur")>>,
                 <<Some("5000.9"), None, Some("")>>}}

LookupCities == {Some("Berlin"), Some("Munich"), Some(""), None}

LookupCountries == {Some("DE"), Some(" Ch"), Some("")}

InitIndex ==
    /\ op = "start"
    /\ inp \in SeqsUpTo(RefRows, MaxRefRows)
    /\ out = None
    /\ file = NoFile
    /\ cache = NoCache

\* The index is built from the rows inp and looked up for (City, Country).
CallLookup ==
    /\ op = "start"
    /\ op' = "lookup"
    /\ \E City \in LookupCities, Country \in LookupCountries :
           out' = [City |-> City, Country |-> Country,
                   entry |-> Lookup(BuildIndex(inp), City, Country)]
    /\ UNCHANGED <<inp, file, cache>>

NextIndex == CallLookup

SpecIndex == InitIndex /\ [][NextIndex]_vars

(***************************************************************************)
(* C3.  lookup(city, country) returns the entry of the last row with that  *)
(* exact lowercased (city, country) pair if there is one, otherwise the    *)
(* fallback entry of the first row with that non-empty country, otherwise  *)
(* nothing.                                                                *)
(***************************************************************************)
RowsWithPair(rows, city, country) ==
    {i \in 1..Len(rows) :
        RowCountry(rows[i]) # "" /\ RowCity(rows[i]) = city
        /\ RowCountry(rows[i]) = country}

RowsWithCountry(rows, country) ==
    {i \in 1..Len(rows) :
        RowCountry(rows[i]) # "" /\ RowCountry(rows[i]) = country}

MaxOf(S) == CHOOSE i \in S : \A j \in S : i >= j

C3_LookupLastPairFirstCountry ==
    op = "lookup" =>
        LET city    == Lower(Strip(OrEmpty(out.City)))
            country == Lower(Strip(OrEmpty(out.Country)))
            pair    == RowsWithPair(inp, city, country)
            land    == RowsWithCountry(inp, country)
        IN  out.entry =
                IF pair # {} THEN Some(CityEntry(inp[MaxOf(pair)]))
                ELSE IF land # {} THEN Some(CountryEntry(inp[MinOf(land)]))
                ELSE None

C3_Witness ==
    /\ op = "lookup"
    /\ Len(inp) = 3
    /\ RowCity(inp[1]) = "berlin" /\ RowCountry(inp[1]) = "de"
    /\ RowCity(inp[2]) = "" /\ RowCountry(inp[2]) = "de"
    /\ RowCity(inp[3]) = "berlin" /\ RowCountry(inp[3]) = "de"
    /\ CityEntry(inp[1]).median = Some(6000)
    /\ CityEntry(inp[2]).median = Some(5000)
    /\ CityEntry(inp[3]).median = Some(5000)
    /\ out.City = Some("Munich") /\ out.Country = Some("DE")
    /\ out.entry = Some(CountryEntry(inp[1]))

(***************************************************************************)
(* The cache of the index.  file is the reference file as os.path.exists,  *)
(* os.path.getmtime and open see it; cache is _salary_cache.               *)
(***************************************************************************)
MaxMtime == 2

MaxJobs == 2

\* A slip in the test of the cache: the mtime is not compared.
CacheHit_path_only(c, path, mtime) == c.path = Some(path)

\* _salary_cache["path"] == path and _salary_cache["mtime"] == mtime
CacheHit(c, path, mtime) == c.path = Some(path) /\ c.mtime = mtime

\* One call of read_salary_reference with the file f and the cache c: the
\* map it returns, whether it built it, and the cache it leaves.
read_salary_reference(f, c) ==
    IF ~f.exists
    THEN [map |-> <<>>, rebuilt |-> FALSE, cache |-> c]
    ELSE IF CacheHit(c, SALARY_CSV, f.mtime)
    THEN [map |-> c.map, rebuilt |-> FALSE, cache |-> c]
    ELSE LET ref == BuildIndex(f.content)
         IN  [map |-> ref, rebuilt |-> TRUE,
              cache |-> [path |-> Some(SALARY_CSV), mtime |-> f.mtime,
                         map |-> ref]]

RefFields ==
    {"ref_median", "ref_min", "ref_currency", "ref_match_label",
     "ref_salary_min", "ref_salary_max"}

\* The listing j with the fields of the entry ref.
SetRefFields(j, ref) ==
    [k \in DOMAIN j \cup RefFields |->
        IF k = "ref_median" THEN ref.median
        ELSE IF k = "ref_min" THEN ref.min
        ELSE IF k = "ref_currency" THEN ref.currency
        ELSE IF k = "ref_match_label" THEN ref.label
        ELSE IF k = "ref_salary_min" THEN ref.min
        ELSE IF k = "ref_salary_max" THEN ref.median
        ELSE j[k]]

\* A slip in the loop body: a listing without a match gets the fields too,
\* all None.
EnrichJob_placeholders(ref_map, j) ==
    LET ref == Lookup(ref_map, Get(j, "City"), Get(j, "Country"))
    IN  IF ref = None
        THEN [k \in DOMAIN j \cup RefFields |->
                 IF k \in RefFields THEN None ELSE j[k]]
        ELSE SetRefFields(j, ref[1])

\* The body of the loop over the listings.
EnrichJob(ref_map, j) ==
    LET ref == Lookup(ref_map, Get(j, "City"), Get(j, "Country"))
    IN  IF ref = None THEN j ELSE SetRefFields(j, ref[1])

\* enrich_with_salary_reference, given the map read_salary_reference returned.
enrich_with_salary_reference(ref_map, rows) ==
    IF DOMAIN ref_map = {} THEN rows
    ELSE [i \in 1..Len(rows) |-> EnrichJob(ref_map, rows[i])]

(***************************************************************************)
(* Inputs of the cache: the file holds one of RefFiles under an mtime of   *)
(* 0..MaxMtime; the listings enriched are those read_jobs_csv produces,    *)
(* with the raw City and Country kept for the lookup.                      *)
(***************************************************************************)
RefFiles ==
    {<<>>,
     <<RefRow(Some("Zurich"), Some(""), Some("9000"), Some("7000"),
              Some("chf"))>>,
     <<RefRow(Some("Berlin"), Some("DE"), Some("6000"), Some("3000"),
              Some("eur"))>>,
     <<RefRow(Some(""), Some("de"), Some("5000.9"), None, Some("")),
       RefRow(Some(" berlin"), Some("DE "), Some("7000"), Some("4000"),
              Some("eur")),
       RefRow(Some("Paris"), Some("FR"), Some(""), Some("n/a"), Some(""))>>}

Mtimes == 0..MaxMtime

Job(title, City, Country, own) ==
    [title |-> title, City |-> Some(City), Country |-> Some(Country),
     salary_min |-> own[1], salary_max |-> own[2]]

Jobs ==
    {Job("Software Engineer", "Berlin", "DE", <<Some(3000), Some(6000)>>),
     Job("Data Analyst", "Munich", "de", <<None, None>>),
     Job("Product Manager", "Paris", "FR", <<None, Some(0)>>),
     Job("Designer", "Oslo", "", <<Some(3000), None>>)}

InitCache ==
    /\ op = "start"
    /\ inp = None
    /\ out = None
    /\ file \in {NoFile} \cup
                {[exists |-> TRUE, content |-> c, mtime |-> m] :
                    c \in RefFiles, m \in Mtimes}
    /\ cache = NoCache

\* The file is modified: new content, and an mtime that differs.
ModifyFile ==
    /\ file.exists
    /\ \E c \in RefFiles, m \in Mtimes \ {file.mtime} :
           file' = [exists |-> TRUE, content |-> c, mtime |-> m]
    /\ op' = "modify"
    /\ inp' = None
    /\ out' = None
    /\ UNCHANGED cache

\* The file is deleted.
DeleteFile ==
    /\ file.exists
    /\ file' = NoFile
    /\ op' = "delete"
    /\ inp' = None
    /\ out' = None
    /\ UNCHANGED cache

\* The file is created again, with the mtime the file put in its place
\* carries.
CreateFile ==
    /\ ~file.exists
    /\ \E c \in RefFiles, m \in Mtimes :
           file' = [exists |-> TRUE, content |-> c, mtime |-> m]
    /\ op' = "create"
    /\ inp' = None
    /\ out' = None
    /\ UNCHANGED cache

CallReadSalaryReference ==
    /\ LET r == read_salary_reference(file, cache)
       IN  /\ out' = [map |-> r.map, rebuilt |-> r.rebuilt]
           /\ cache' = r.cache
    /\ op' = "read_salary_reference"
    /\ inp' = None
    /\ UNCHANGED file

CallEnrich ==
    /\ \E rows \in SeqsUpTo(Jobs, MaxJobs) :
           LET r == read_salary_reference(file, cache)
           IN  /\ inp' = rows
               /\ out' = enrich_with_salary_reference(r.map, rows)
               /\ cache' = r.cache
    /\ op' = "enrich_with_salary_reference"
    /\ UNCHANGED file

NextCache ==
    \/ ModifyFile
    \/ DeleteFile
    \/ CreateFile
    \/ CallReadSalaryReference
    \/ CallEnrich

SpecCache == InitCache /\ [][NextCache]_vars

(***************************************************************************)
(* C4 as stated.  Every call of read_salary_reference made while the file  *)
(* exists returns the index of the file's current content, building it     *)
(* exactly when (path, mtime) differs from the cached pair and reusing the *)
(* cached map otherwise.                                                   *)
(***************************************************************************)
PairCached == cache.path = Some(SALARY_CSV) /\ cache.mtime = file.mtime

C4_Stated ==
    [][(op' = "read_salary_reference" /\ file.exists) =>
          /\ out'.map = BuildIndex(file.content)
          /\ out'.rebuilt <=> ~PairCached
          /\ ~out'.rebuilt => out'.map = cache.map]_vars

(***************************************************************************)
(* C4.  A call of read_salary_reference made while the file exists builds  *)
(* the index of the current content exactly when (path, mtime) differs     *)
(* from the cached pair, and caches it under the pair; otherwise it        *)
(* returns the cached map and leaves the cache.  It returns the index of   *)
(* the current content unless the file holds other content under the very  *)
(* pair the cache was built at.  A call made while the file is absent      *)
(* returns the empty map, builds nothing and leaves the cache.             *)
(***************************************************************************)
CacheCoherent == PairCached => cache.map = BuildIndex(file.content)

C4_RebuildOnPairChange ==
    [][op' = "read_salary_reference" =>
          IF ~file.exists
          THEN out'.map = <<>> /\ ~out'.rebuilt /\ cache' = cache
          ELSE /\ out'.rebuilt <=> ~PairCached
               /\ out'.rebuilt =>
                      /\ out'.map = BuildIndex(file.content)
                      /\ cache' = [path |-> Some(SALARY_CSV),
                                   mtime |-> file.mtime, map |-> out'.map]
               /\ ~out'.rebuilt => out'.map = cache.map /\ cache' = cache
               /\ CacheCoherent => out'.map = BuildIndex(file.content)]_vars

C4_Witness ==
    /\ op = "read_salary_reference"
    /\ file.exists
    /\ ~out.rebuilt
    /\ out.map = cache.map
    /\ DOMAIN out.map # {}
    /\ out.map = BuildIndex(file.content)

(***************************************************************************)
(* C9.  enrich_with_salary_reference returns the same listings in the same *)
(* order with every own field as it was; a listing that resolves in the    *)
(* index gains exactly the six reference fields, ref_salary_min = ref_min  *)
(* and ref_salary_max = ref_median being the entry's min and median; a     *)
(* listing that does not resolve, and every listing when the file is       *)
(* missing or its index empty, is returned as it came.                     *)
(***************************************************************************)
IndexRead == IF file.exists THEN cache.map ELSE <<>>

NumThreads == 2

MaxVersion == 3

Threads == 1..NumThreads

VersionMedians == <<"1000", "2000", "3000", "4000", "5000", "6000">>

\* The rows of version k of the file.
VersionContent(k) ==
    <<RefRow(Some("Berlin"), Some("DE"), Some(VersionMedians[k]),
             Some("900"), Some("eur"))>>

VersionFile(k) == [exists |-> TRUE, content |-> VersionContent(k), mtime |-> k]

IdleFrame == [pc |-> "idle", mtime |-> 0, ref |-> <<>>, ret |-> None]

InitRace ==
    /\ op = "start"
    /\ inp = [t \in Threads |-> {}]
    /\ out = [t \in Threads |-> IdleFrame]
    /\ file = VersionFile(1)
    /\ cache = NoCache

\* The frame of thread t becomes f; the other frames stay.
SetFrame(t, f) == out' = [out EXCEPT ![t] = f]

\* Thread t calls read_salary_reference (line 186).
BeginCall(t) ==
    /\ out[t].pc \in {"idle", "done"}
    /\ SetFrame(t, [IdleFrame EXCEPT !.pc = "exists"])
    /\ inp' = [inp EXCEPT ![t] = {file.content}]
    /\ op' = "call"
    /\ UNCHANGED <<file, cache>>

\* if not os.path.exists(path): return {}   (line 187)
TestExists(t) ==
    /\ out[t].pc = "exists"
    /\ IF file.exists
       THEN SetFrame(t, [out[t] EXCEPT !.pc = "getmtime"])
       ELSE SetFrame(t, [out[t] EXCEPT !.pc = "done", !.ret = Some(<<>>)])
    /\ op' = "exists"
    /\ UNCHANGED <<inp, file, cache>>

\* mtime = os.path.getmtime(path)   (line 190)
GetMtime(t) ==
    /\ out[t].pc = "getmtime"
    /\ SetFrame(t, [out[t] EXCEPT !.pc = "test_path", !.mtime = file.mtime])
    /\ op' = "getmtime"
    /\ UNCHANGED <<inp, file, cache>>

\* _salary_cache["path"] == path   (line 191, left operand of and)
TestPath(t) ==
    /\ out[t].pc = "test_path"
    /\ SetFrame(t, [out[t] EXCEPT !.pc = IF cache.path = Some(SALARY_CSV)
                                         THEN "test_mtime" ELSE "build"])
    /\ op' = "test_path"
    /\ UNCHANGED <<inp, file, cache>>

\* _salary_cache["mtime"] == mtime   (line 191, right operand of and)
TestMtime(t) ==
    /\ out[t].pc = "test_mtime"
    /\ SetFrame(t, [out[t] EXCEPT !.pc = IF cache.mtime = out[t].mtime
                                         THEN "return_map" ELSE "build"])
    /\ op' = "test_mtime"
    /\ UNCHANGED <<inp, file, cache>>

\* return _salary_cache["map"]   (line 192)
ReturnCachedMap(t) ==
    /\ out[t].pc = "return_map"
    /\ SetFrame(t, [out[t] EXCEPT !.pc = "done", !.ret = Some(cache.map)])
    /\ op' = "return_map"
    /\ UNCHANGED <<inp, file, cache>>

\* ref = {} and the loop over the rows of the file   (lines 194-227)
BuildRef(t) ==
    /\ out[t].pc = "build"
    /\ SetFrame(t, [out[t] EXCEPT !.pc = "update",
                                  !.ref = BuildIndex(file.content)])
    /\ op' = "build"
    /\ UNCHANGED <<inp, file, cache>>

\* _salary_cache.update({"path": path, "mtime": mtime, "map": ref})  (line 229)
UpdateCache(t) ==
    /\ out[t].pc = "update"
    /\ cache' = [path |-> Some(SALARY_CSV), mtime |-> out[t].mtime,
                 map |-> out[t].ref]
    /\ SetFrame(t, [out[t] EXCEPT !.pc = "return_ref"])
    /\ op' = "update"
    /\ UNCHANGED <<inp, file>>

\* return ref   (line 230)
ReturnRef(t) ==
    /\ out[t].pc = "return_ref"
    /\ SetFrame(t, [out[t] EXCEPT !.pc = "done", !.ret = Some(out[t].ref)])
    /\ op' = "return_ref"
    /\ UNCHANGED <<inp, file, cache>>

\* The file is replaced by its next version, with a later mtime.  The new
\* version is current during every call then running.
ModifyFileDuringCalls ==
    /\ file.mtime < MaxVersion
    /\ file' = VersionFile(file.mtime + 1)
    /\ inp' = [t \in Threads |->
                  IF out[t].pc \in {"idle", "done"} THEN inp[t]
                  ELSE inp[t] \cup {VersionContent(file.mtime + 1)}]
    /\ op' = "modify"
    /\ UNCHANGED <<out, cache>>

NextRace ==
    \/ \E t \in Threads : BeginCall(t)
    \/ \E t \in Threads : TestExists(t)
    \/ \E t \in Threads : GetMtime(t)
    \/ \E t \in Threads : TestPath(t)
    \/ \E t \in Threads : TestMtime(t)
    \/ \E t \in Threads : ReturnCachedMap(t)
    \/ \E t \in Threads : BuildRef(t)
    \/ \E t \in Threads : UpdateCache(t)
    \/ \E t \in Threads : ReturnRef(t)
    \/ ModifyFileDuringCalls

SpecRace == InitRace /\ [][NextRace]_vars

(***************************************************************************)
(* C11.  Under every interleaving of concurrent read_salary_reference      *)
(* calls with modifications of the file, each call returns the completely  *)
(* built index of a version of the file that was current at some moment    *)
(* during that call; so a call that starts after the last modification     *)
(* returns the index of the last version.                                  *)
(***************************************************************************)
C11_RacingCallersOnlyRebuild ==
    \A t \in Threads :
        out[t].pc = "done" =>
            \E content \in inp[t] : out[t].ret = Some(BuildIndex(content))

====
